---- MODULE Spec2Model ----
(***************************************************************************)
(* Connected-component labeling (atcoder8/labeling).                       *)
(*                                                                         *)
(*   src/src/union_find.rs  UnionFind: parent_or_size, group_num           *)
(*   src/src/lib.rs         four_/eight_neighborhood_based_labeling,       *)
(*                          reassign_labels                                *)
(*   src/src/main.rs        calls both labelings on the same image         *)
(*                                                                         *)
(* All vectors are modelled as functions on 0..len-1, so that an index of  *)
(* the model is the index of the code.  A panic (failed assert!, index out *)
(* of bounds) stops the call and leaves the memory as it was at the panic. *)
(*                                                                         *)
(*   SpecUF  the UnionFind object under arbitrary calls of its API         *)
(*   Spec    both labeling functions, one pixel per step, on every vector  *)
(*           of rows within the bounds (rectangular or not)                *)
(***************************************************************************)
EXTENDS Integers, FiniteSets, Sequences, TLC

\* Bounds of the model.
MaxElems == 4
MaxNew == 1
MaxH == 2
MaxW == 3

VARIABLES
    parent_or_size,       \* UnionFind.parent_or_size (union_find.rs:8)
    group_num,            \* UnionFind.group_num (union_find.rs:11)
    op,                   \* SpecUF: the last call on the UnionFind and its outcome
    pre,                  \* SpecUF: the UnionFind as it was before the last call
    n0,                   \* SpecUF: the argument of UnionFind::new
    adds,                 \* SpecUF: number of add() calls so far
    repeated,             \* SpecUF: the last call is merge(a, b) right after a
                          \*         merge(a, b) that returned true
    binary_image,         \* the argument of the labeling functions
    phase,                \* which labeling function main is running
    pc,                   \* position inside the running labeling function
    i, j,                 \* loop indices of the running loop nest
    labeled_image,        \* lib.rs:30 / lib.rs:111
    reassignment_labels,  \* lib.rs:205
    label_cnt,            \* lib.rs:208
    four_result           \* main.rs:50, labeled_image_based_on_four_nei

drv == <<op, pre, n0, adds, repeated>>
lab == <<binary_image, phase, pc, i, j, labeled_image, reassignment_labels,
         label_cnt, four_result>>
vars == <<parent_or_size, group_num, op, pre, n0, adds, repeated, binary_image,
          phase, pc, i, j, labeled_image, reassignment_labels, label_cnt, four_result>>

-----------------------------------------------------------------------------
(* Vectors *)

\* Vec::len
VecLen(v) == Cardinality(DOMAIN v)

\* Vec::push
VecPush(v, x) == [k \in 0..VecLen(v) |-> IF k < VecLen(v) THEN v[k] ELSE x]

\* vec![x; n]
VecOf(x, n) == [k \in 0..(n - 1) |-> x]

-----------------------------------------------------------------------------
(* union_find.rs *)

\* UnionFind::new(n)
UFNew(n) == [p |-> VecOf(-1, n), g |-> n]

\* UnionFind::get_elem_num
GetElemNum(p) == VecLen(p)

\* UnionFind::leader(a) on parent_or_size = p.  The result is the vector after
\* the call, the returned leader, and whether the call panicked (an index out
\* of bounds at line 26).
RECURSIVE Leader(_, _)
Leader(p, a) ==
    IF a \notin DOMAIN p
    THEN [p |-> p, ret |-> -1, panicked |-> TRUE]
    ELSE IF p[a] < 0
    THEN [p |-> p, ret |-> a, panicked |-> FALSE]
    ELSE LET r == Leader(p, p[a])
         IN  IF r.panicked
             THEN r
             ELSE [p |-> [r.p EXCEPT ![a] = r.ret], ret |-> r.ret,
                   panicked |-> FALSE]

\* UnionFind::same(a, b)
Same(p, a, b) ==
    LET la == Leader(p, a)
        lb == Leader(la.p, b)
    IN  IF la.panicked THEN [p |-> la.p, ret |-> FALSE, panicked |-> TRUE]
        ELSE IF lb.panicked THEN [p |-> lb.p, ret |-> FALSE, panicked |-> TRUE]
        ELSE [p |-> lb.p, ret |-> (la.ret = lb.ret), panicked |-> FALSE]

\* Link with the comparison of line 45 reversed: the larger class is hung
\* under the smaller one.
LinkSmallerWins(p, leader_a, leader_b) ==
    LET swap == p[leader_a] < p[leader_b]
        x == IF swap THEN leader_b ELSE leader_a
        y == IF swap THEN leader_a ELSE leader_b
    IN  [p EXCEPT ![x] = p[x] + p[y], ![y] = x]

\* Lines 45-49 of merge: the leader with the larger class (the smaller stored
\* value) becomes the parent; on equal sizes it is leader_a.
Link(p, leader_a, leader_b) ==
    LET swap == p[leader_a] > p[leader_b]
        x == IF swap THEN leader_b ELSE leader_a
        y == IF swap THEN leader_a ELSE leader_b
    IN  [p EXCEPT ![x] = p[x] + p[y], ![y] = x]

\* merge with group_num decremented before the test of line 42.
MergeCountsFirst(p, g, a, b) ==
    LET la == Leader(p, a)
        lb == Leader(la.p, b)
    IN  IF la.panicked
        THEN [p |-> la.p, g |-> g, ret |-> FALSE, panicked |-> TRUE]
        ELSE IF lb.panicked
        THEN [p |-> lb.p, g |-> g, ret |-> FALSE, panicked |-> TRUE]
        ELSE IF la.ret = lb.ret
        THEN [p |-> lb.p, g |-> g - 1, ret |-> FALSE, panicked |-> FALSE]
        ELSE [p |-> Link(lb.p, la.ret, lb.ret), g |-> g - 1, ret |-> TRUE,
              panicked |-> FALSE]

\* UnionFind::merge(a, b) on parent_or_size = p, group_num = g.
Merge(p, g, a, b) ==
    LET la == Leader(p, a)
        lb == Leader(la.p, b)
    IN  IF la.panicked
        THEN [p |-> la.p, g |-> g, ret |-> FALSE, panicked |-> TRUE]
        ELSE IF lb.panicked
        THEN [p |-> lb.p, g |-> g, ret |-> FALSE, panicked |-> TRUE]
        ELSE IF la.ret = lb.ret
        THEN [p |-> lb.p, g |-> g, ret |-> FALSE, panicked |-> FALSE]
        ELSE [p |-> Link(lb.p, la.ret, lb.ret), g |-> g - 1, ret |-> TRUE,
              panicked |-> FALSE]

\* size with a checked read (get(a)) that answers 0 for an id out of range
\* instead of panicking.
SizeOrZero(p, a) ==
    LET l == Leader(p, a)
    IN  IF l.panicked
        THEN [p |-> l.p, ret |-> 0, panicked |-> FALSE]
        ELSE [p |-> l.p, ret |-> -(l.p[l.ret]), panicked |-> FALSE]

\* UnionFind::size(a)
Size(p, a) ==
    LET l == Leader(p, a)
    IN  IF l.panicked
        THEN [p |-> l.p, ret |-> -1, panicked |-> TRUE]
        ELSE [p |-> l.p, ret |-> -(l.p[l.ret]), panicked |-> FALSE]

\* add without line 63.
AddKeepsGroupNum(p, g) == [p |-> VecPush(p, -1), g |-> g]

\* UnionFind::add
Add(p, g) == [p |-> VecPush(p, -1), g |-> g + 1]

-----------------------------------------------------------------------------
(* SpecUF: a caller of the UnionFind API.  Ids are drawn from 0..MaxElems,   *)
(* so that out-of-range ids occur in every state.  A panic ends the run.     *)

Ids == 0..MaxElems

NoOp == [name |-> "new", a |-> 0, b |-> 0, ret |-> 0, panicked |-> FALSE]

NotReturned == [returned |-> FALSE]

LabIdle ==
    /\ binary_image = << >>
    /\ phase = "idle"
    /\ pc = "idle"
    /\ i = 0
    /\ j = 0
    /\ labeled_image = << >>
    /\ reassignment_labels = << >>
    /\ label_cnt = 0
    /\ four_result = NotReturned

InitUF ==
    /\ n0 \in 0..MaxNew
    /\ parent_or_size = UFNew(n0).p
    /\ group_num = UFNew(n0).g
    /\ op = NoOp
    /\ pre = [p |-> parent_or_size, g |-> group_num]
    /\ adds = 0
    /\ repeated = FALSE
    /\ LabIdle

Called(name, a, b, r) ==
    /\ ~op.panicked
    /\ pre' = [p |-> parent_or_size, g |-> group_num]
    /\ op' = [name |-> name, a |-> a, b |-> b, ret |-> r.ret,
              panicked |-> r.panicked]
    /\ repeated' = (/\ name = "merge"
                    /\ op.name = "merge"
                    /\ op.ret = TRUE
                    /\ op.a = a
                    /\ op.b = b)
    /\ parent_or_size' = r.p
    /\ UNCHANGED <<n0, lab>>

CallAdd ==
    /\ GetElemNum(parent_or_size) < MaxElems
    /\ Called("add", 0, 0, [p |-> Add(parent_or_size, group_num).p, ret |-> 0,
                            panicked |-> FALSE])
    /\ group_num' = Add(parent_or_size, group_num).g
    /\ adds' = adds + 1

CallLeader ==
    \E a \in Ids :
        /\ Called("leader", a, 0, Leader(parent_or_size, a))
        /\ UNCHANGED <<group_num, adds>>

CallSame ==
    \E a \in Ids, b \in Ids :
        /\ Called("same", a, b, Same(parent_or_size, a, b))
        /\ UNCHANGED <<group_num, adds>>

CallMerge ==
    \E a \in Ids, b \in Ids :
        /\ Called("merge", a, b, Merge(parent_or_size, group_num, a, b))
        /\ group_num' = Merge(parent_or_size, group_num, a, b).g
        /\ UNCHANGED adds

CallSize ==
    \E a \in Ids :
        /\ Called("size", a, 0, Size(parent_or_size, a))
        /\ UNCHANGED <<group_num, adds>>

NextUF == CallAdd \/ CallLeader \/ CallSame \/ CallMerge \/ CallSize

SpecUF == InitUF /\ [][NextUF]_vars

-----------------------------------------------------------------------------
(* lib.rs *)

\* Option<LabelType>
None == [some |-> FALSE]
Some(x) == [some |-> TRUE, val |-> x]

\* let h = binary_image.len()
Height(img) == VecLen(img)

\* let w = binary_image[0].len()
Width(img) == VecLen(img[0])

\* labeled_image filled with 0 instead of -1.
BlankImageZero(h, w) == VecOf(VecOf(0, w), h)

\* vec![vec![-1; w]; h] (line 30 / 111)
BlankImage(h, w) == VecOf(VecOf(-1, w), h)

\* The row assertion as assert!(binary_image[i].len() >= w).
RowIsAtLeastAsWide(img, r) == VecLen(img[r]) >= Width(img)

\* assert_eq!(binary_image[i].len(), w) (line 35 / 114)
RowIsRectangular(img, r) == VecLen(img[r]) = Width(img)

\* Lines 44-55 / 123-148: the label of the pixel at (r, c) if `inside` holds
\* and the pixel is foreground, else -1.
LabelAt(img, lbl, inside, r, c) ==
    IF inside /\ img[r][c] THEN lbl[r][c] ELSE -1

\* labeled_image[r][c] = x
SetLabel(lbl, r, c, x) == [lbl EXCEPT ![r] = [lbl[r] EXCEPT ![c] = x]]

\* A new label one past the element add() creates.
NewLabelOffByOne(lbl, p, g, r, c) ==
    [l |-> SetLabel(lbl, r, c, GetElemNum(p) + 1), p |-> Add(p, g).p,
     g |-> Add(p, g).g, panicked |-> FALSE]

\* Lines 72-77 / 165-170: a new label for the pixel at (r, c).
NewLabel(lbl, p, g, r, c) ==
    [l |-> SetLabel(lbl, r, c, GetElemNum(p)), p |-> Add(p, g).p,
     g |-> Add(p, g).g, panicked |-> FALSE]

\* The inner loop of four_neighborhood_based_labeling without line 63.
FourPixelNoMerge(img, lbl, p, g, r, c) ==
    LET upper_label == LabelAt(img, lbl, r > 0, r - 1, c)
        left_label  == LabelAt(img, lbl, c > 0, r, c - 1)
    IN  IF ~img[r][c]
        THEN [l |-> lbl, p |-> p, g |-> g, panicked |-> FALSE]
        ELSE IF upper_label # -1
        THEN [l |-> SetLabel(lbl, r, c, upper_label), p |-> p, g |-> g,
              panicked |-> FALSE]
        ELSE IF left_label # -1
        THEN [l |-> SetLabel(lbl, r, c, left_label), p |-> p, g |-> g,
              panicked |-> FALSE]
        ELSE NewLabel(lbl, p, g, r, c)

\* The body of the inner loop of four_neighborhood_based_labeling at pixel
\* (r, c): the label image and the UnionFind after it.
FourPixel(img, lbl, p, g, r, c) ==
    LET upper_label == LabelAt(img, lbl, r > 0, r - 1, c)
        left_label  == LabelAt(img, lbl, c > 0, r, c - 1)
    IN  IF ~img[r][c]
        THEN [l |-> lbl, p |-> p, g |-> g, panicked |-> FALSE]
        ELSE IF upper_label # -1 /\ left_label # -1
        THEN LET m == Merge(p, g, upper_label, left_label)
             IN  [l |-> SetLabel(lbl, r, c, upper_label), p |-> m.p,
                  g |-> m.g, panicked |-> m.panicked]
        ELSE IF upper_label # -1
        THEN [l |-> SetLabel(lbl, r, c, upper_label), p |-> p, g |-> g,
              panicked |-> FALSE]
        ELSE IF left_label # -1
        THEN [l |-> SetLabel(lbl, r, c, left_label), p |-> p, g |-> g,
              panicked |-> FALSE]
        ELSE NewLabel(lbl, p, g, r, c)

\* surrounding_labels.iter().filter(|x| **x != -1)
ForegroundLabels(surrounding_labels) ==
    SelectSeq(surrounding_labels, LAMBDA x : x # -1)

\* Lines 162-164: foreground_labels.for_each(|x| uf.merge(foreground_label, x)),
\* stopping at the first merge that panics.
RECURSIVE MergeEach(_, _, _, _)
MergeEach(p, g, foreground_label, rest) ==
    IF rest = << >>
    THEN [p |-> p, g |-> g, panicked |-> FALSE]
    ELSE LET m == Merge(p, g, foreground_label, Head(rest))
         IN  IF m.panicked
             THEN [p |-> m.p, g |-> m.g, panicked |-> TRUE]
             ELSE MergeEach(m.p, m.g, foreground_label, Tail(rest))

\* The inner loop of eight_neighborhood_based_labeling with left_label left
\* out of surrounding_labels.
EightPixelNoLeft(img, lbl, p, g, r, c) ==
    LET w == Width(img)
        upper_left_label  == LabelAt(img, lbl, r > 0 /\ c > 0, r - 1, c - 1)
        upper_label       == LabelAt(img, lbl, r > 0, r - 1, c)
        upper_right_label == LabelAt(img, lbl, r > 0 /\ c < w - 1, r - 1, c + 1)
        foreground_labels ==
            ForegroundLabels(<<upper_left_label, upper_label,
                               upper_right_label>>)
    IN  IF ~img[r][c]
        THEN [l |-> lbl, p |-> p, g |-> g, panicked |-> FALSE]
        ELSE IF foreground_labels # << >>
        THEN LET m == MergeEach(p, g, Head(foreground_labels),
                                Tail(foreground_labels))
             IN  [l |-> SetLabel(lbl, r, c, Head(foreground_labels)),
                  p |-> m.p, g |-> m.g, panicked |-> m.panicked]
        ELSE NewLabel(lbl, p, g, r, c)

\* The body of the inner loop of eight_neighborhood_based_labeling at pixel
\* (r, c).
EightPixel(img, lbl, p, g, r, c) ==
    LET w == Width(img)
        upper_left_label  == LabelAt(img, lbl, r > 0 /\ c > 0, r - 1, c - 1)
        upper_label       == LabelAt(img, lbl, r > 0, r - 1, c)
        upper_right_label == LabelAt(img, lbl, r > 0 /\ c < w - 1, r - 1, c + 1)
        left_label        == LabelAt(img, lbl, c > 0, r, c - 1)
        foreground_labels ==
            ForegroundLabels(<<upper_left_label, upper_label,
                               upper_right_label, left_label>>)
    IN  IF ~img[r][c]
        THEN [l |-> lbl, p |-> p, g |-> g, panicked |-> FALSE]
        ELSE IF foreground_labels # << >>
        THEN LET m == MergeEach(p, g, Head(foreground_labels),
                                Tail(foreground_labels))
             IN  [l |-> SetLabel(lbl, r, c, Head(foreground_labels)),
                  p |-> m.p, g |-> m.g, panicked |-> m.panicked]
        ELSE NewLabel(lbl, p, g, r, c)

\* The inner loop of reassign_labels writing leader_label itself instead of
\* the label counted in label_cnt.
ReassignPixelLeaderAsLabel(lbl, p, ra, cnt, r, c) ==
    LET ld == Leader(p, lbl[r][c])
        leader_label == ld.ret
        fresh == ra[leader_label].some = FALSE
        ra2 == IF fresh THEN [ra EXCEPT ![leader_label] = Some(leader_label)]
               ELSE ra
    IN  IF lbl[r][c] = -1
        THEN [l |-> lbl, p |-> p, ra |-> ra, cnt |-> cnt, panicked |-> FALSE]
        ELSE IF ld.panicked \/ leader_label \notin DOMAIN ra
        THEN [l |-> lbl, p |-> ld.p, ra |-> ra, cnt |-> cnt, panicked |-> TRUE]
        ELSE [l |-> SetLabel(lbl, r, c, ra2[leader_label].val), p |-> ld.p,
              ra |-> ra2, cnt |-> (IF fresh THEN cnt + 1 ELSE cnt),
              panicked |-> FALSE]

\* The body of the inner loop of reassign_labels at pixel (r, c): the label
\* image, parent_or_size, reassignment_labels and label_cnt after it.  It
\* panics when leader() does or when leader_label indexes past the end of
\* reassignment_labels.
ReassignPixel(lbl, p, ra, cnt, r, c) ==
    LET ld == Leader(p, lbl[r][c])
        leader_label == ld.ret
        fresh == ra[leader_label].some = FALSE
        ra2 == IF fresh THEN [ra EXCEPT ![leader_label] = Some(cnt)] ELSE ra
    IN  IF lbl[r][c] = -1
        THEN [l |-> lbl, p |-> p, ra |-> ra, cnt |-> cnt, panicked |-> FALSE]
        ELSE IF ld.panicked \/ leader_label \notin DOMAIN ra
        THEN [l |-> lbl, p |-> ld.p, ra |-> ra, cnt |-> cnt, panicked |-> TRUE]
        ELSE [l |-> SetLabel(lbl, r, c, ra2[leader_label].val), p |-> ld.p,
              ra |-> ra2, cnt |-> (IF fresh THEN cnt + 1 ELSE cnt),
              panicked |-> FALSE]

-----------------------------------------------------------------------------
(* Spec: the labeling functions, one pixel per step.  pc is the position in *)
(* the running function: "entry" (before line 23 / 102), "scan" (the loop   *)
(* nest at 34-79 / 113-172), "reassign" (inside reassign_labels),           *)
(* "returned", "panicked".                                                  *)

Rows == UNION {[0..(w - 1) -> BOOLEAN] : w \in 0..MaxW}

\* Every Vec<Vec<bool>> of at most MaxH rows of at most MaxW pixels.
Images == UNION {[0..(h - 1) -> Rows] : h \in 0..MaxH}

DrvIdle ==
    /\ op = NoOp
    /\ pre = [p |-> << >>, g |-> 0]
    /\ n0 = 0
    /\ adds = 0
    /\ repeated = FALSE

Init ==
    /\ binary_image \in Images
    /\ phase \in {"four", "eight"}
    /\ pc = "entry"
    /\ i = 0
    /\ j = 0
    /\ labeled_image = << >>
    /\ parent_or_size = << >>
    /\ group_num = 0
    /\ reassignment_labels = << >>
    /\ label_cnt = 0
    /\ four_result = NotReturned
    /\ DrvIdle

\* Lines 23-32 / 102-111: the two asserts, then labeled_image and uf.
Enter ==
    /\ pc = "entry"
    /\ IF Height(binary_image) >= 1 /\ Width(binary_image) >= 1
       THEN /\ labeled_image' = BlankImage(Height(binary_image),
                                           Width(binary_image))
            /\ parent_or_size' = UFNew(0).p
            /\ group_num' = UFNew(0).g
            /\ pc' = "scan"
       ELSE /\ pc' = "panicked"
            /\ UNCHANGED <<labeled_image, parent_or_size, group_num>>
    /\ UNCHANGED <<binary_image, phase, i, j, reassignment_labels, label_cnt,
                   four_result, drv>>

\* for j in 0..w inside for i in 0..h: the indices after pixel (i, j).
NextI == IF j + 1 < VecLen(labeled_image[0]) THEN i ELSE i + 1
NextJ == IF j + 1 < VecLen(labeled_image[0]) THEN j + 1 ELSE 0

\* One iteration of the inner loop (lines 37-78 / 116-171), with the assert_eq!
\* of line 35 / 114 before the first pixel of a row.
Scan(r) ==
    /\ pc = "scan"
    /\ i < Height(binary_image)
    /\ IF j = 0 /\ ~RowIsRectangular(binary_image, i)
       THEN /\ pc' = "panicked"
            /\ UNCHANGED <<i, j, labeled_image, parent_or_size, group_num>>
       ELSE /\ labeled_image' = r.l
            /\ parent_or_size' = r.p
            /\ group_num' = r.g
            /\ IF r.panicked
               THEN pc' = "panicked" /\ UNCHANGED <<i, j>>
               ELSE pc' = "scan" /\ i' = NextI /\ j' = NextJ
    /\ UNCHANGED <<binary_image, phase, reassignment_labels, label_cnt,
                   four_result, drv>>

ScanFour ==
    /\ phase = "four"
    /\ Scan(FourPixel(binary_image, labeled_image, parent_or_size, group_num,
                      i, j))

ScanEight ==
    /\ phase = "eight"
    /\ Scan(EightPixel(binary_image, labeled_image, parent_or_size, group_num,
                       i, j))

\* Lines 82 / 175 and 192-208: the call of reassign_labels, its two asserts,
\* reassignment_labels and label_cnt.
EnterReassign ==
    /\ pc = "scan"
    /\ i = Height(binary_image)
    /\ IF VecLen(labeled_image) >= 1 /\ VecLen(labeled_image[0]) >= 1
       THEN /\ reassignment_labels' = VecOf(None, GetElemNum(parent_or_size))
            /\ label_cnt' = 0
            /\ i' = 0
            /\ j' = 0
            /\ pc' = "reassign"
       ELSE /\ pc' = "panicked"
            /\ UNCHANGED <<reassignment_labels, label_cnt, i, j>>
    /\ UNCHANGED <<binary_image, phase, labeled_image, parent_or_size,
                   group_num, four_result, drv>>

\* One iteration of the inner loop of reassign_labels (lines 211-230).
Reassign ==
    /\ pc = "reassign"
    /\ i < VecLen(labeled_image)
    /\ LET r == ReassignPixel(labeled_image, parent_or_size,
                              reassignment_labels, label_cnt, i, j)
       IN  /\ labeled_image' = r.l
           /\ parent_or_size' = r.p
           /\ reassignment_labels' = r.ra
           /\ label_cnt' = r.cnt
           /\ IF r.panicked
              THEN pc' = "panicked" /\ UNCHANGED <<i, j>>
              ELSE pc' = "reassign" /\ i' = NextI /\ j' = NextJ
    /\ UNCHANGED <<binary_image, phase, group_num, four_result, drv>>

\* Lines 84 / 177: labeled_image is returned.
Return ==
    /\ pc = "reassign"
    /\ i = VecLen(labeled_image)
    /\ pc' = "returned"
    /\ UNCHANGED <<binary_image, phase, i, j, labeled_image, parent_or_size,
                   group_num, reassignment_labels, label_cnt, four_result, drv>>

\* main.rs:50 and 65-66: main keeps what four_neighborhood_based_labeling
\* returned and calls eight_neighborhood_based_labeling on the same image.
MainCallsEight ==
    /\ phase = "four"
    /\ pc = "returned"
    /\ four_result' = [returned |-> TRUE, image |-> labeled_image]
    /\ phase' = "eight"
    /\ pc' = "entry"
    /\ i' = 0
    /\ j' = 0
    /\ labeled_image' = << >>
    /\ parent_or_size' = << >>
    /\ group_num' = 0
    /\ reassignment_labels' = << >>
    /\ label_cnt' = 0
    /\ UNCHANGED <<binary_image, drv>>

Next ==
    \/ Enter
    \/ ScanFour
    \/ ScanEight
    \/ EnterReassign
    \/ Reassign
    \/ Return
    \/ MainCallsEight

Spec == Init /\ [][Next]_vars

-----------------------------------------------------------------------------
(* The partition a parent_or_size vector stands for, read without changing  *)
(* the vector.                                                              *)

RECURSIVE Root(_, _)
Root(p, a) == IF p[a] < 0 THEN a ELSE Root(p, p[a])

ClassOf(p, a) == {x \in DOMAIN p : Root(p, x) = Root(p, a)}

Roots(p) == {Root(p, x) : x \in DOMAIN p}

\* Number of parent links from a to its root.
RECURSIVE Depth(_, _)
Depth(p, a) == IF p[a] < 0 THEN 0 ELSE 1 + Depth(p, p[a])

\* The elements on the path from a to its root, a included.
RECURSIVE PathOf(_, _)
PathOf(p, a) == IF p[a] < 0 THEN {a} ELSE {a} \cup PathOf(p, p[a])

\* q stands for the same partition as p, with the same roots and stored sizes.
SameClasses(p, q) ==
    /\ DOMAIN q = DOMAIN p
    /\ \A x \in DOMAIN p : Root(q, x) = Root(p, x)
    /\ \A x \in Roots(p) : q[x] = p[x]

InRange(a) == a \in DOMAIN pre.p

-----------------------------------------------------------------------------
(* Claims on the UnionFind (SpecUF) *)

MergedDistinct ==
    /\ op.name = "merge"
    /\ InRange(op.a)
    /\ InRange(op.b)
    /\ Root(pre.p, op.a) # Root(pre.p, op.b)

\* C4: merge(a, b) on in-range ids of different classes returns true, lowers
\* the class count by exactly one, keeps the element count, makes the root of
\* the class that is not strictly smaller the representative of the union
\* (the class with strictly fewer elements becomes the child) and stores the
\* sum of the two prior class sizes in that root; the same merge repeated at
\* once returns false and leaves the class count as it is.
C4_Merge ==
    /\ MergedDistinct =>
          LET ra == Root(pre.p, op.a)
              rb == Root(pre.p, op.b)
              sa == Cardinality(ClassOf(pre.p, op.a))
              sb == Cardinality(ClassOf(pre.p, op.b))
              r  == Root(parent_or_size, op.a)
          IN  /\ ~op.panicked
              /\ op.ret = TRUE
              /\ group_num = pre.g - 1
              /\ GetElemNum(parent_or_size) = GetElemNum(pre.p)
              /\ Root(parent_or_size, op.b) = r
              /\ r \in {ra, rb}
              /\ sa < sb => r = rb
              /\ sb < sa => r = ra
              /\ parent_or_size[(IF r = ra THEN rb ELSE ra)] = r
              /\ -parent_or_size[r] = sa + sb
              /\ ClassOf(parent_or_size, op.a)
                    = ClassOf(pre.p, op.a) \cup ClassOf(pre.p, op.b)
    /\ repeated =>
          /\ ~op.panicked
          /\ op.ret = FALSE
          /\ group_num = pre.g

\* A merge of a class of one element (first argument) into a larger class,
\* followed at once by the same merge.
C4_Witness ==
    /\ repeated
    /\ op.ret = FALSE
    /\ Cardinality(ClassOf(parent_or_size, op.a)) >= 3
    /\ Root(parent_or_size, op.a) # op.a
    /\ Root(parent_or_size, op.a) # op.b

SameClassMerge ==
    /\ op.name = "merge"
    /\ InRange(op.a)
    /\ InRange(op.b)
    /\ Root(pre.p, op.a) = Root(pre.p, op.b)

\* C5 as stated: a merge of two ids of one class returns false and leaves the
\* whole UnionFind (every entry of parent_or_size, the element count and the
\* class count) as it was.
C5_Original ==
    SameClassMerge =>
        /\ op.ret = FALSE
        /\ parent_or_size = pre.p
        /\ group_num = pre.g

\* C5 amended: a merge of two ids of one class returns false and leaves the
\* element count, the class count, every element's representative and every
\* root's stored size as they were; the only entries of parent_or_size that
\* change are those of non-root elements on the paths from a and from b to
\* their root, which leader() relinks directly to the root.
C5_Amended ==
    SameClassMerge =>
        /\ ~op.panicked
        /\ op.ret = FALSE
        /\ group_num = pre.g
        /\ SameClasses(pre.p, parent_or_size)
        /\ \A x \in DOMAIN pre.p :
              \/ parent_or_size[x] = pre.p[x]
              \/ /\ x \in PathOf(pre.p, op.a) \cup PathOf(pre.p, op.b)
                 /\ pre.p[x] >= 0
                 /\ parent_or_size[x] = Root(pre.p, x)
        /\ \A x \in PathOf(pre.p, op.a) \cup PathOf(pre.p, op.b) :
              Depth(parent_or_size, x) <= 1

\* A same-class merge whose first argument was two links away from its root.
C5_Witness ==
    /\ SameClassMerge
    /\ op.a # op.b
    /\ Depth(pre.p, op.a) >= 2
    /\ parent_or_size # pre.p

\* C6: for every element a, size(a) is the number of elements whose leader is
\* the leader of a; group_num is the number of distinct leaders; n calls of
\* add() on a UnionFind created empty give n elements.
C6_Sizes ==
    /\ \A a \in DOMAIN parent_or_size :
          /\ ~Size(parent_or_size, a).panicked
          /\ Size(parent_or_size, a).ret
                = Cardinality({x \in DOMAIN parent_or_size :
                                 Leader(parent_or_size, x).ret
                                    = Leader(parent_or_size, a).ret})
          /\ Leader(parent_or_size, a).ret = Root(parent_or_size, a)
    /\ group_num = Cardinality({Leader(parent_or_size, x).ret :
                                   x \in DOMAIN parent_or_size})
    /\ GetElemNum(parent_or_size) = n0 + adds
    /\ (op.name = "size" /\ InRange(op.a)) =>
          op.ret = Cardinality(ClassOf(pre.p, op.a))
    /\ (op.name = "leader" /\ InRange(op.a)) => op.ret = Root(pre.p, op.a)
    /\ (op.name = "same" /\ InRange(op.a) /\ InRange(op.b)) =>
          op.ret = (Root(pre.p, op.a) = Root(pre.p, op.b))

\* size(a) answered 3 on a UnionFind grown from empty by add() alone, for an
\* element that is not its class's leader.
C6_Witness ==
    /\ n0 = 0
    /\ adds = MaxElems
    /\ op.name = "size"
    /\ op.ret = 3
    /\ group_num = 2
    /\ Root(parent_or_size, op.a) # op.a

OutOfRangeCall ==
    \/ op.name \in {"leader", "size"} /\ ~InRange(op.a)
    \/ op.name = "merge" /\ (~InRange(op.a) \/ ~InRange(op.b))

\* C8 as stated: leader, merge and size with an id out of range abort with
\* every entry of parent_or_size and the class count as before the call.
C8_Original ==
    OutOfRangeCall =>
        /\ op.panicked
        /\ parent_or_size = pre.p
        /\ group_num = pre.g

\* C8 amended: leader(a), merge(a, b) and size(a) with an id out of range
\* abort; the class count, the element count, every element's representative
\* and every root's stored size are as before the call, and so is every entry
\* of parent_or_size, except that merge(a, b) with a in range and b out of
\* range has already run leader(a), which relinks the non-root elements on
\* the path from a to its root directly to the root.
C8_Amended ==
    OutOfRangeCall =>
        /\ op.panicked
        /\ group_num = pre.g
        /\ SameClasses(pre.p, parent_or_size)
        /\ (op.name = "merge" /\ InRange(op.a))
              => /\ parent_or_size = Leader(pre.p, op.a).p
                 /\ \A x \in DOMAIN pre.p :
                       \/ parent_or_size[x] = pre.p[x]
                       \/ /\ x \in PathOf(pre.p, op.a)
                          /\ parent_or_size[x] = Root(pre.p, x)
        /\ ~(op.name = "merge" /\ InRange(op.a)) => parent_or_size = pre.p

\* merge(a, b) with b out of range and a two links away from its root.
C8_Witness ==
    /\ op.name = "merge"
    /\ op.panicked
    /\ InRange(op.a)
    /\ ~InRange(op.b)
    /\ Depth(pre.p, op.a) >= 2
    /\ parent_or_size # pre.p

-----------------------------------------------------------------------------
(* Reference: connected components by flood fill, independent of the        *)
(* UnionFind.  A cell is <<row, column>>.                                   *)

Foreground(img) ==
    {x \in (DOMAIN img) \X (0..(MaxW + 1)) :
        x[2] \in DOMAIN img[x[1]] /\ img[x[1]][x[2]]}

Abs(n) == IF n < 0 THEN -n ELSE n

Adjacent(mode, x, y) ==
    LET dr == Abs(x[1] - y[1])
        dc == Abs(x[2] - y[2])
    IN  IF mode = "four" THEN dr + dc = 1 ELSE x # y /\ dr <= 1 /\ dc <= 1

RECURSIVE Fill(_, _, _)
Fill(img, mode, S) ==
    LET T == S \cup {y \in Foreground(img) : \E x \in S : Adjacent(mode, x, y)}
    IN  IF T = S THEN S ELSE Fill(img, mode, T)

Components(img, mode) == {Fill(img, mode, {x}) : x \in Foreground(img)}

WellFormed(img) ==
    /\ Height(img) >= 1
    /\ Width(img) >= 1
    /\ \A r \in DOMAIN img : VecLen(img[r]) = Width(img)

LabelOf(lbl, x) == lbl[x[1]][x[2]]

LabelsOf(img, lbl) == {LabelOf(lbl, x) : x \in Foreground(img)}

\* Position of a cell in row-major order.
RasterIndex(img, x) == x[1] * Width(img) + x[2]

-----------------------------------------------------------------------------
(* Claims on the labeling functions (Spec) *)

\* C1: in the image either labeling function returns, two foreground cells
\* hold the same label if and only if a path of foreground cells joins them
\* under the function's adjacency (4-neighbour for four_, 8-neighbour for
\* eight_neighborhood_based_labeling), as found by flood fill.
C1_LabelsAreComponents ==
    pc = "returned" =>
        \A x \in Foreground(binary_image), y \in Foreground(binary_image) :
            (LabelOf(labeled_image, x) = LabelOf(labeled_image, y))
               <=> (y \in Fill(binary_image, phase, {x}))

\* A returned image with two components, one of which needed a merge of two
\* provisional labels.
C1_Witness ==
    /\ pc = "returned"
    /\ Cardinality(LabelsOf(binary_image, labeled_image)) = 2
    /\ GetElemNum(parent_or_size) = 3

\* C2: the returned labels are exactly 0..k-1, k the number of connected
\* components, and a foreground cell that is the first of its label in
\* row-major order holds the number of distinct labels on the cells before it.
C2_DenseFirstAppearance ==
    pc = "returned" =>
        /\ LabelsOf(binary_image, labeled_image)
              = 0..(Cardinality(Components(binary_image, phase)) - 1)
        /\ \A x \in Foreground(binary_image) :
              LET before == {y \in Foreground(binary_image) :
                                RasterIndex(binary_image, y)
                                   < RasterIndex(binary_image, x)}
              IN  (\A y \in before :
                      LabelOf(labeled_image, y) # LabelOf(labeled_image, x))
                  => LabelOf(labeled_image, x)
                        = Cardinality({LabelOf(labeled_image, y) : y \in before})

\* A returned image of two components whose provisional labels were merged
\* under a leader that is not provisional label 0.
C2_Witness ==
    /\ pc = "returned"
    /\ LabelsOf(binary_image, labeled_image) = {0, 1}
    /\ \E a \in DOMAIN parent_or_size : parent_or_size[a] > 0

\* C3: the returned image has the height of the input and, row by row, its
\* width; a cell is -1 exactly where the input is background, and every
\* foreground cell holds a label >= 0.
C3_ShapeAndBackground ==
    pc = "returned" =>
        /\ VecLen(labeled_image) = VecLen(binary_image)
        /\ \A r \in DOMAIN binary_image :
              /\ VecLen(labeled_image[r]) = VecLen(binary_image[r])
              /\ \A c \in DOMAIN binary_image[r] :
                    /\ (binary_image[r][c] = FALSE) <=> (labeled_image[r][c] = -1)
                    /\ binary_image[r][c] => labeled_image[r][c] >= 0

\* A returned image with both background and foreground cells.
C3_Witness ==
    /\ pc = "returned"
    /\ Height(binary_image) = MaxH
    /\ Width(binary_image) = MaxW
    /\ \E r \in DOMAIN binary_image : \E c \in DOMAIN binary_image[r] :
          ~binary_image[r][c] /\ labeled_image[r][c] = -1
    /\ \E r \in DOMAIN binary_image : \E c \in DOMAIN binary_image[r] :
          binary_image[r][c] /\ labeled_image[r][c] = 1

\* No cell has a provisional label and the UnionFind has no element.
NothingLabeled ==
    /\ \A r \in DOMAIN labeled_image : \A c \in DOMAIN labeled_image[r] :
          labeled_image[r][c] = -1
    /\ GetElemNum(parent_or_size) = 0

\* C7 as stated: on a malformed image (no row, an empty row 0, or a row whose
\* length differs from row 0's) the call aborts before any cell has a
\* provisional label and before any UnionFind element is added, and returns
\* no image.
C7_Original ==
    ~WellFormed(binary_image) =>
        /\ pc \notin {"reassign", "returned"}
        /\ pc = "panicked" => NothingLabeled

\* The first row whose length differs from row 0's.
FirstBadRow(img) ==
    CHOOSE r \in DOMAIN img :
        /\ VecLen(img[r]) # Width(img)
        /\ \A q \in 0..(r - 1) : VecLen(img[q]) = Width(img)

\* C7 amended: on a malformed image the call aborts and returns no image.
\* H == 0 and W == 0 are detected on entry, before labeled_image and the
\* UnionFind exist.  A row i whose length differs from row 0's is detected
\* when the scan reaches row i: no cell of row i or of a later row has a
\* label, while every foreground cell of rows 0..i-1 already has a
\* provisional label of the UnionFind.
C7_Amended ==
    ~WellFormed(binary_image) =>
        /\ pc \notin {"reassign", "returned"}
        /\ (Height(binary_image) = 0 \/ Width(binary_image) = 0) =>
              /\ pc \in {"entry", "panicked"}
              /\ labeled_image = << >>
              /\ GetElemNum(parent_or_size) = 0
        /\ (Height(binary_image) >= 1 /\ Width(binary_image) >= 1) =>
              LET bad == FirstBadRow(binary_image)
              IN  /\ pc = "scan" => i <= bad
                  /\ pc = "panicked" =>
                        /\ i = bad
                        /\ j = 0
                        /\ \A r \in DOMAIN labeled_image :
                              \A c \in DOMAIN labeled_image[r] :
                                 IF r < bad /\ binary_image[r][c]
                                 THEN labeled_image[r][c]
                                         \in DOMAIN parent_or_size
                                 ELSE labeled_image[r][c] = -1

\* The abort on a ragged second row, after the first row was labelled.
C7_Witness ==
    /\ pc = "panicked"
    /\ Height(binary_image) = 2
    /\ Width(binary_image) >= 1
    /\ i = 1
    /\ GetElemNum(parent_or_size) >= 1
    /\ labeled_image[0][0] = 0

\* C9: on the same image, eight_neighborhood_based_labeling returns at most
\* as many distinct labels as four_neighborhood_based_labeling.
C9_EightAtMostFour ==
    (phase = "eight" /\ pc = "returned" /\ four_result.returned) =>
        Cardinality(LabelsOf(binary_image, labeled_image))
           <= Cardinality(LabelsOf(binary_image, four_result.image))

\* Both functions returned on an image where diagonal adjacency joins
\* components: strictly fewer labels under 8-adjacency.
C9_Witness ==
    /\ phase = "eight"
    /\ pc = "returned"
    /\ four_result.returned
    /\ Cardinality(LabelsOf(binary_image, labeled_image)) = 1
    /\ Cardinality(LabelsOf(binary_image, four_result.image)) = 3

\* The cells the scan has passed: those before (i, j) in row-major order.
Scanned(x) == x[1] < i \/ (x[1] = i /\ x[2] < j)

\* C10: on a well-formed image neither function panics: during the scan every
\* label already written is an element of the UnionFind (so every id given to
\* merge is in range), and in reassign_labels every provisional label still
\* in the image is an element and its leader indexes reassignment_labels.
C10_NoPanic ==
    WellFormed(binary_image) =>
        /\ pc # "panicked"
        /\ pc = "scan" =>
              \A x \in Foreground(binary_image) :
                 IF Scanned(x)
                 THEN LabelOf(labeled_image, x) \in DOMAIN parent_or_size
                 ELSE LabelOf(labeled_image, x) = -1
        /\ pc = "reassign" =>
              /\ VecLen(reassignment_labels) = GetElemNum(parent_or_size)
              /\ \A x \in Foreground(binary_image) :
                    IF Scanned(x)
                    THEN LabelOf(labeled_image, x) \in 0..(label_cnt - 1)
                    ELSE /\ LabelOf(labeled_image, x) \in DOMAIN parent_or_size
                         /\ ~Leader(parent_or_size,
                                    LabelOf(labeled_image, x)).panicked
                         /\ Leader(parent_or_size, LabelOf(labeled_image, x)).ret
                               \in DOMAIN reassignment_labels

\* A well-formed image of full size labelled to the end, with merges on the
\* way.
C10_Witness ==
    /\ WellFormed(binary_image)
    /\ pc = "returned"
    /\ Height(binary_image) = MaxH
    /\ Width(binary_image) = MaxW
    /\ group_num < GetElemNum(parent_or_size)

====
